---- MODULE Spec2Model ----
(***************************************************************************)
(* cooked-waker: the generic `impl<T> IntoWaker for T` (src/src/lib.rs)    *)
(* and the WakeRef / Wake / ViaRawPointer implementations it dispatches    *)
(* to.  A behaviour is one program instantiating the impl at one wrapped   *)
(* type T and then driving Wakers of that type through the four VTABLE     *)
(* functions, while it also creates, clones, downgrades and drops the      *)
(* pointers it holds itself.                                               *)
(***************************************************************************)
EXTENDS Integers, FiniteSets, Sequences, TLC

\* ------------------------------------------------------------------ bounds
MaxTargets == 1     \* targets (Arc::new, Rc::new, Box::new) the program makes
MaxAddr == 2        \* heap allocations in all, Box clones included
MaxHandles == 2     \* Wakers made in all (into_waker and clone)
MaxRef == 2         \* wake_by_ref calls the program makes in all
MaxOwned == 2       \* pointers the program holds itself at one time
MaxFields == 2      \* fields of a struct given to a derive
MaxGenerics == 2    \* generic parameters of a type given to a derive
MaxCtx == 2         \* execution contexts that call into the VTABLE at one time

Null == 0
Addr == 1..MaxAddr
Handles == 1..MaxHandles
Ctx == 1..MaxCtx

\* ------------------------------------------------------------------- types
\* The wrapped types T the impl is instantiated at.
ZeroSized == {"StaticWaker", "PanicWaker"}
StrongT == {"Arc", "Rc"}
WeakT == {"ArcWeak", "RcWeak"}
BoxT == {"Box"}
Types == ZeroSized \cup StrongT \cup WeakT \cup BoxT

\* Option<T> over a pointer type and over a zero-sized waker.
OptionT == {"OptionArc", "OptionStaticWaker"}
Inner(ty) == IF ty = "OptionArc" THEN "Arc" ELSE "StaticWaker"

\* `T: Wake + Clone + Send + Sync + 'static + ViaRawPointer`: Rc and rc::Weak
\* are not Send + Sync, so they never reach a VTABLE.
Sendable == Types \ {"Rc", "RcWeak"}

\* Wrapped types whose user code faults or breaks a contract: Arc<PanicWaker>
\* (the default wake runs PanicWaker's wake_by_ref, which panics), a
\* zero-sized waker whose Clone panics, and a waker whose into_raw does not
\* give back the pointer from_raw was given.
FaultT == {"ArcPanic", "PanicClone", "Unstable"}

\* The allocation kind behind a pointer type.
KindOf(ty) ==
  CASE ty \in {"Arc", "ArcWeak", "OptionArc", "ArcPanic"} -> "arc"
    [] ty \in {"Rc", "RcWeak"} -> "rc"
    [] ty \in BoxT -> "box"
    [] OTHER -> "none"

\* `const VTABLE: &'static RawWakerVTable`: one table per type T.
VTABLE(ty) == ty

VARIABLES
  debug_assertions,  \* cfg(debug_assertions) of the build
  input,             \* the derive macro invoked and the item it is given
  output,            \* what the macro expanded to
  stowed,            \* the counters of the same value behind a derived table
  ctx,               \* where each execution context is inside a VTABLE call
  T,                 \* the wrapped type of this program
  heap,              \* allocations: Arc/Rc inner blocks and Box allocations
  owned,             \* pointers the program itself holds, per target
  handles,           \* the Wakers made so far
  ref_calls,         \* wake_by_ref calls made so far, per data pointer
  panics,            \* panics that unwound out of a call into the caller
  trip,              \* what the last from_raw(into_raw(v)) round trip gave
  wake_ref_count,    \* static counter bumped by the value's wake_by_ref
  wake_value_count,  \* static counter bumped by the value's wake
  drop_count,        \* static counter bumped by the value's Drop
  clone_count        \* invocations of T's Clone by the VTABLE

\* cfg(debug_assertions): whether debug_assert_eq! is compiled in.
DebugBuild == debug_assertions

\* What no operation on a value or a Waker writes.
frame == <<debug_assertions, input, output, stowed, ctx>>

vars == <<debug_assertions, input, output, stowed, ctx, T, heap, owned, handles, ref_calls, panics, trip, wake_ref_count,
          wake_value_count, drop_count, clone_count>>

\* kind, the strong and weak counts, the Counter's count (or nothing for a
\* Box), how often the pointee was torn down, how often the allocation was
\* released, and how often the pointee was used after its teardown.
NoCell == [kind |-> "none", strong |-> 0, weak |-> 0, count |-> 0,
           dropped |-> 0, freed |-> 0, stale |-> 0]
NoHandle == [st |-> "unused", ptr |-> Null, vtable |-> "none", parent |-> 0]
NoOwned == [strong |-> 0, weak |-> 0]

\* The part of the state the trait methods read and write, threaded through
\* a call; `panicked` is set once a panic is unwinding.
World ==
  [heap |-> heap, wake_ref_count |-> wake_ref_count,
   wake_value_count |-> wake_value_count, drop_count |-> drop_count,
   clone_count |-> clone_count, panicked |-> FALSE, log |-> <<>>]

\* The state a call leaves: a panic that unwinds out of it reaches the caller.
Commit(w) ==
  /\ heap' = w.heap
  /\ wake_ref_count' = w.wake_ref_count
  /\ wake_value_count' = w.wake_value_count
  /\ drop_count' = w.drop_count
  /\ clone_count' = w.clone_count
  /\ panics' = IF w.panicked THEN panics + 1 ELSE panics

\* One more call of the counted method f, noted in the order of the calls.
Bump(w, f) == [w EXCEPT ![f] = @ + 1, !.log = Append(@, f)]

\* A value of type ty: zero-sized values carry no pointer.
Value(ty, p) == [ty |-> ty, ptr |-> IF ty \in ZeroSized THEN Null ELSE p]

\* Values of Option<T>: Some(v) keeps v's fields, None has none.
Some(ty, p) == [ty |-> ty, some |-> TRUE, ptr |-> Value(Inner(ty), p).ptr]
None(ty) == [ty |-> ty, some |-> FALSE, ptr |-> Null]
Unwrap(o) == Value(Inner(o.ty), o.ptr)

\* ------------------------------------------------- std pointer primitives
\* Arc::new / Rc::new / Box::new: the first unused address.
HasFree(h) == \E p \in Addr : h[p].kind = "none"
FreshAddr(h) == CHOOSE p \in Addr : h[p].kind = "none" /\ \A q \in Addr : q < p => h[q].kind # "none"
NewCell(k) == [NoCell EXCEPT !.kind = k, !.strong = 1]

\* Drop of one Arc / Rc: the last strong pointer tears the pointee down, and
\* releases the allocation unless a Weak still holds it.
ReleaseStrong(w, p) ==
  LET c == w.heap[p]
      s == c.strong - 1
  IN [w EXCEPT !.heap[p] =
        [c EXCEPT !.strong = s,
                  !.dropped = IF s = 0 THEN @ + 1 ELSE @,
                  !.freed = IF s = 0 /\ c.weak = 0 THEN @ + 1 ELSE @]]

\* Drop of one Weak: the last weak pointer of a dead target releases the
\* allocation.
ReleaseWeak(w, p) ==
  LET c == w.heap[p]
      k == c.weak - 1
  IN [w EXCEPT !.heap[p] =
        [c EXCEPT !.weak = k,
                  !.freed = IF k = 0 /\ c.strong = 0 THEN @ + 1 ELSE @]]

UpgradeTy(ty) == IF ty = "ArcWeak" THEN "Arc" ELSE "Rc"

\* Mutant of upgrade: hands out a strong pointer without looking at the
\* strong count.
upgrade_unchecked(w, v) ==
  [w |-> [w EXCEPT !.heap[v.ptr].strong = @ + 1], some |-> TRUE,
   val |-> Value(UpgradeTy(v.ty), v.ptr)]

\* Weak::upgrade: a new strong pointer if the target is alive, else None.
upgrade(w, v) ==
  IF w.heap[v.ptr].strong > 0
  THEN [w |-> [w EXCEPT !.heap[v.ptr].strong = @ + 1], some |-> TRUE,
        val |-> Value(UpgradeTy(v.ty), v.ptr)]
  ELSE [w |-> w, some |-> FALSE, val |-> Value(UpgradeTy(v.ty), Null)]

\* ------------------------------------------------------ the wrapped values
\* Drop for StaticWaker / PanicWaker / the value inside a Box.
Inner_drop(w) == Bump(w, "drop_count")

\* WakeRef for StaticWaker, and for the value inside a Box.
StaticWaker_wake_by_ref(w) == Bump(w, "wake_ref_count")

\* WakeRef for PanicWaker: counts, then panics.
PanicWaker_wake_by_ref(w) == [Bump(w, "wake_ref_count") EXCEPT !.panicked = TRUE]

\* Wake for StaticWaker / PanicWaker / the value inside a Box: counts, and
\* `self` is dropped when the method returns.
Inner_wake(w) == Inner_drop(Bump(w, "wake_value_count"))

\* WakeRef for Counter: count.fetch_add(1).
Counter_wake_by_ref(w, p) ==
  IF w.heap[p].dropped > 0
  THEN [w EXCEPT !.heap[p].stale = @ + 1]
  ELSE [w EXCEPT !.heap[p].count = @ + 1]

\* Drop of a Box<T>: the inner value's Drop, then the allocation.
Box_drop(w, p) ==
  LET w1 == Inner_drop(w)
  IN [w1 EXCEPT !.heap[p].strong = 0, !.heap[p].dropped = @ + 1,
                !.heap[p].freed = @ + 1]

\* Drop of a value of any of the types.
RECURSIVE drop(_, _)
drop(w, v) ==
  CASE v.ty \in ZeroSized -> Inner_drop(w)
    [] v.ty \in StrongT -> ReleaseStrong(w, v.ptr)
    [] v.ty \in WeakT -> ReleaseWeak(w, v.ptr)
    [] v.ty \in BoxT -> Box_drop(w, v.ptr)
    [] v.ty \in OptionT -> IF v.some THEN drop(w, Unwrap(v)) ELSE w
    [] v.ty = "ArcPanic" ->
         LET w1 == ReleaseStrong(w, v.ptr)
         IN IF w1.heap[v.ptr].dropped > w.heap[v.ptr].dropped
            THEN Inner_drop(w1) ELSE w1
    [] v.ty \in {"PanicClone", "Unstable"} -> Inner_drop(w)

\* Arc::clone / Rc::clone: one more strong pointer to the same target.
Arc_clone(w, p) == [w EXCEPT !.heap[p].strong = @ + 1]

\* Mutant of clone: copies the pointer bits and takes no new reference.
clone_bitwise(w, v) == [w |-> Bump(w, "clone_count"), val |-> v]

\* T's Clone as the VTABLE calls it, counted: [w, val].
clone(w, v) ==
  LET w1 == Bump(w, "clone_count")
  IN CASE v.ty \in ZeroSized -> [w |-> w1, val |-> v]
       [] v.ty \in StrongT -> [w |-> Arc_clone(w1, v.ptr), val |-> v]
       [] v.ty \in WeakT ->
            [w |-> [w1 EXCEPT !.heap[v.ptr].weak = @ + 1], val |-> v]
       [] v.ty \in BoxT ->
            LET q == FreshAddr(w.heap)
            IN [w |-> [w1 EXCEPT !.heap[q] = NewCell("box")],
                val |-> Value(v.ty, q)]
       [] v.ty \in OptionT ->
            IF v.some /\ Inner(v.ty) \in StrongT
            THEN [w |-> Arc_clone(w1, v.ptr), val |-> v]
            ELSE [w |-> w1, val |-> v]
       [] v.ty = "ArcPanic" -> [w |-> Arc_clone(w1, v.ptr), val |-> v]
       [] v.ty = "PanicClone" -> [w |-> [w1 EXCEPT !.panicked = TRUE], val |-> v]
       [] v.ty = "Unstable" -> [w |-> w1, val |-> v]

\* ---------------------------------------------------------- ViaRawPointer
\* Mutant of into_raw: self is not forgotten, so it is dropped on return.
into_raw_no_forget(w, v) ==
  [w |-> drop(w, v), ptr |-> IF v.ty \in ZeroSized THEN Null ELSE v.ptr]

\* The pointer a contract-breaking into_raw returns for a value made from p.
Moved(p) == (p % MaxAddr) + 1

\* into_raw: [w, ptr].  Box / Arc / Rc / Weak hand out their pointer and
\* release nothing; the zero-sized wakers forget self and return null; an
\* Option gives its value's pointer, or null for None.
RECURSIVE into_raw(_, _)
into_raw(w, v) ==
  CASE v.ty \in ZeroSized \cup {"PanicClone"} -> [w |-> w, ptr |-> Null]
    [] v.ty = "Unstable" -> [w |-> w, ptr |-> Moved(v.ptr)]
    [] v.ty \in OptionT ->
         IF v.some THEN into_raw(w, Unwrap(v)) ELSE [w |-> w, ptr |-> Null]
    [] OTHER -> [w |-> w, ptr |-> v.ptr]

\* from_raw: the value that owns ptr; the zero-sized wakers ignore ptr, and
\* an Option takes null for None.
from_raw(ty, ptr) ==
  IF ty \in OptionT
  THEN IF ptr = Null THEN None(ty) ELSE Some(ty, ptr)
  ELSE Value(ty, ptr)

\* ---------------------------------------------------------- WakeRef / Wake
RECURSIVE wake_by_ref(_, _), wake(_, _)

\* impl WakeRef for Box<T>: T::wake_by_ref(self.as_ref()).
Box_wake_by_ref(w, v) == StaticWaker_wake_by_ref(w)

\* Mutant of Box_wake: the trait's default method instead of T::wake(*self).
Box_wake_default(w, v) == Box_drop(Box_wake_by_ref(w, v), v.ptr)

\* impl Wake for Box<T>: T::wake(*self): the inner value is moved out and
\* woken by value, the allocation is released.
Box_wake(w, v) ==
  LET w1 == Inner_wake(w)
  IN [w1 EXCEPT !.heap[v.ptr].strong = 0, !.heap[v.ptr].dropped = @ + 1,
                !.heap[v.ptr].freed = @ + 1]

\* impl WakeRef for Arc<T> / Rc<T>: T::wake_by_ref(self.as_ref()).
Arc_wake_by_ref(w, v) == Counter_wake_by_ref(w, v.ptr)

\* Mutant of Wake_wake: self is not dropped when wake_by_ref unwinds.
Wake_wake_forgets_on_panic(w, v) ==
  IF wake_by_ref(w, v).panicked THEN wake_by_ref(w, v)
  ELSE drop(wake_by_ref(w, v), v)

\* Mutant of Wake_wake: self is dropped and nothing is woken.
Wake_wake_only_drops(w, v) == drop(w, v)

\* trait Wake, default method: self.wake_by_ref(), then self is dropped
\* (also when wake_by_ref unwinds).
Wake_wake(w, v) == drop(wake_by_ref(w, v), v)

\* impl Wake for Rc<T>: T::wake_by_ref(self.as_ref()), then self is dropped.
Rc_wake(w, v) == drop(Counter_wake_by_ref(w, v.ptr), v)

\* Mutant of Option_wake: self.unwrap().wake(), which panics on None.
Option_wake_unwrap(w, o) ==
  IF o.some THEN wake(w, o.val) ELSE [w EXCEPT !.panicked = TRUE]

\* impl Wake for Option<T>: if let Some(waker) = self { waker.wake() }.
Option_wake(w, o) == IF o.some THEN wake(w, o.val) ELSE w

\* impl WakeRef for Option<T>: if let Some(waker) = self { waker.wake_by_ref() }.
Option_wake_by_ref(w, o) == IF o.some THEN wake_by_ref(w, o.val) ELSE w

\* impl WakeRef for Weak<T>: self.upgrade().wake().
Weak_wake_by_ref(w, v) ==
  LET u == upgrade(w, v)
  IN Option_wake(u.w, u)

wake_by_ref(w, v) ==
  CASE v.ty = "StaticWaker" -> StaticWaker_wake_by_ref(w)
    [] v.ty = "PanicWaker" -> PanicWaker_wake_by_ref(w)
    [] v.ty \in BoxT -> Box_wake_by_ref(w, v)
    [] v.ty \in StrongT -> Arc_wake_by_ref(w, v)
    [] v.ty \in WeakT -> Weak_wake_by_ref(w, v)
    [] v.ty \in OptionT ->
         Option_wake_by_ref(w, [some |-> v.some, val |-> Unwrap(v)])
    [] v.ty = "ArcPanic" -> PanicWaker_wake_by_ref(w)
    [] v.ty \in {"PanicClone", "Unstable"} -> StaticWaker_wake_by_ref(w)

wake(w, v) ==
  CASE v.ty \in ZeroSized -> Inner_wake(w)
    [] v.ty \in BoxT -> Box_wake(w, v)
    [] v.ty = "Rc" -> Rc_wake(w, v)
    [] v.ty \in {"Arc", "ArcWeak", "RcWeak"} -> Wake_wake(w, v)
    [] v.ty \in OptionT -> Option_wake(w, [some |-> v.some, val |-> Unwrap(v)])
    [] v.ty = "ArcPanic" -> Wake_wake(w, v)
    [] v.ty \in {"PanicClone", "Unstable"} -> Inner_wake(w)

\* ------------------------------------------------------------ the VTABLE
\* Mutant of debug_assert_eq: assert_eq!, checked in every build.
assert_eq(w, a, b) == IF a # b THEN [w EXCEPT !.panicked = TRUE] ELSE w

\* debug_assert_eq!(waker_raw, raw): panics in a debug build.
debug_assert_eq(w, a, b) ==
  IF DebugBuild /\ a # b THEN [w EXCEPT !.panicked = TRUE] ELSE w

\* Mutant of vt_clone: the clone is boxed into an allocation of its own.
vt_clone_boxed(w, ty, raw) ==
  LET c == clone(w, from_raw(ty, raw))
      q == IF HasFree(c.w.heap) THEN FreshAddr(c.w.heap) ELSE Null
  IN [w |-> c.w, made |-> TRUE, ptr |-> q, vtable |-> VTABLE(ty)]

\* clone: [w, made, ptr, vtable].
vt_clone(w, ty, raw) ==
  LET waker == from_raw(ty, raw)
      c == clone(w, waker)
      none == [made |-> FALSE, ptr |-> Null, vtable |-> "none"]
  IN IF c.w.panicked
     THEN [w |-> drop(c.w, waker)] @@ none
     ELSE LET r1 == into_raw(c.w, waker)
              a == debug_assert_eq(r1.w, r1.ptr, raw)
          IN IF a.panicked
             THEN [w |-> drop(a, c.val)] @@ none
             ELSE LET r2 == into_raw(a, c.val)
                  IN [w |-> r2.w, made |-> TRUE, ptr |-> r2.ptr,
                      vtable |-> VTABLE(ty)]

\* Mutant of vt_wake: wakes by reference, then drops.
vt_wake_calls_by_ref(w, ty, raw) ==
  drop(wake_by_ref(w, from_raw(ty, raw)), from_raw(ty, raw))

\* wake by value.
vt_wake(w, ty, raw) == wake(w, from_raw(ty, raw))

\* Mutant of vt_wake_by_ref: the reconstructed value is not given back with
\* into_raw, so it is dropped when the closure returns.
vt_wake_by_ref_consumes(w, ty, raw) ==
  drop(wake_by_ref(w, from_raw(ty, raw)), from_raw(ty, raw))

\* wake by ref: a panic in wake_by_ref unwinds through the closure and
\* drops the local `waker`.
vt_wake_by_ref(w, ty, raw) ==
  LET waker == from_raw(ty, raw)
      w1 == wake_by_ref(w, waker)
  IN IF w1.panicked
     THEN drop(w1, waker)
     ELSE LET r == into_raw(w1, waker)
          IN debug_assert_eq(r.w, r.ptr, raw)

\* Mutant of vt_drop: the pointer is handed back instead of dropped.
vt_drop_leaks(w, ty, raw) == into_raw(w, from_raw(ty, raw)).w

\* Drop.
vt_drop(w, ty, raw) == drop(w, from_raw(ty, raw))

\* fn into_waker(self) -> Waker: [w, ptr, vtable].
into_waker(w, v) ==
  LET r == into_raw(w, v)
  IN [w |-> r.w, ptr |-> r.ptr, vtable |-> VTABLE(v.ty)]

\* ------------------------------------------------------------ the program
StrongTyOf(ty) ==
  CASE ty = "ArcPanic" -> "ArcPanic"
    [] KindOf(ty) = "arc" -> "Arc"
    [] KindOf(ty) = "rc" -> "Rc"
    [] OTHER -> "Box"
WeakTyOf(ty) == IF KindOf(ty) = "arc" THEN "ArcWeak" ELSE "RcWeak"

\* Whether the program holds a value of type ty for target p.
Holds(ty, p) ==
  IF ty \in WeakT THEN owned[p].weak > 0 ELSE owned[p].strong > 0
Take(ty, p) ==
  IF ty \in WeakT THEN [owned EXCEPT ![p].weak = @ - 1]
  ELSE [owned EXCEPT ![p].strong = @ - 1]

\* The first Waker slot not used yet.
HasSlot == \E h \in Handles : handles[h].st = "unused"
FreshSlot == CHOOSE h \in Handles : handles[h].st = "unused" /\ \A g \in Handles : g < h => handles[g].st # "unused"

\* How many wake_by_ref calls the program has made, and how many pointers it
\* holds, over the addresses up to n.
RECURSIVE RefCalls(_), Held(_)
RefCalls(n) == IF n = 0 THEN ref_calls[Null] ELSE ref_calls[n] + RefCalls(n - 1)
Held(n) == IF n = 0 THEN 0 ELSE owned[n].strong + owned[n].weak + Held(n - 1)

NoTrip == [raw |-> Null, raw2 |-> Null, val |-> Value("StaticWaker", Null)]

\* Nothing made yet, every counter 0.
Fresh ==
  /\ heap = [p \in Addr |-> NoCell]
  /\ owned = [p \in Addr |-> NoOwned]
  /\ handles = [h \in Handles |-> NoHandle]
  /\ ref_calls = [p \in Addr \cup {Null} |-> 0]
  /\ panics = 0
  /\ trip = NoTrip
  /\ wake_ref_count = 0
  /\ wake_value_count = 0
  /\ drop_count = 0
  /\ clone_count = 0

\* No derive macro is run by a program that only drives Wakers.
NoInput == [macro |-> "none"]
NoOutput == [state |-> "none"]
Pending == [state |-> "pending"]
NoStowed == [wake_ref_count |-> 0, wake_value_count |-> 0, drop_count |-> 0,
             clone_count |-> 0, panics |-> 0]
NoValue == [ty |-> "none", ptr |-> Null]
NoCall == [op |-> "idle", h |-> 0, waker |-> NoValue, cloned |-> NoValue,
         pc |-> "idle", up |-> FALSE]
Unused ==
  /\ input = NoInput
  /\ output = NoOutput
  /\ stowed = NoStowed
  /\ ctx = [c \in Ctx |-> NoCall]

\* These types keep the pointer-identity contract, so debug_assert_eq! never
\* fires and the build makes no difference: a debug build is taken.
Init ==
  /\ T \in Types
  /\ debug_assertions = TRUE
  /\ Fresh
  /\ Unused

\* Arc::new(Counter::default()) / Rc::new / Box::new.
New ==
  /\ KindOf(T) # "none"
  /\ Cardinality({p \in Addr : heap[p].kind # "none"}) < MaxTargets
  /\ Held(MaxAddr) < MaxOwned
  /\ LET p == FreshAddr(heap)
     IN /\ heap' = [heap EXCEPT ![p] = NewCell(KindOf(T))]
        /\ owned' = [owned EXCEPT ![p].strong = 1]
  /\ UNCHANGED <<frame, T, handles, ref_calls, panics, trip, wake_ref_count,
                 wake_value_count, drop_count, clone_count>>

\* counter_handle.clone(): the program clones a strong pointer it holds.
CloneOwned(p) ==
  /\ T \in StrongT
  /\ owned[p].strong > 0
  /\ Held(MaxAddr) < MaxOwned
  /\ Commit(Arc_clone(World, p))
  /\ owned' = [owned EXCEPT ![p].strong = @ + 1]
  /\ UNCHANGED <<frame, T, handles, ref_calls, trip>>

\* Arc::downgrade / Rc::downgrade of a strong pointer the program holds.
Downgrade(p) ==
  /\ T \in WeakT
  /\ owned[p].strong > 0
  /\ Held(MaxAddr) < MaxOwned
  /\ heap' = [heap EXCEPT ![p].weak = @ + 1]
  /\ owned' = [owned EXCEPT ![p].weak = @ + 1]
  /\ UNCHANGED <<frame, T, handles, ref_calls, panics, trip, wake_ref_count,
                 wake_value_count, drop_count, clone_count>>

\* The program drops a strong pointer (or the Box) it holds.
DropStrong(p) ==
  /\ T \notin ZeroSized
  /\ owned[p].strong > 0
  /\ Commit(drop(World, Value(StrongTyOf(T), p)))
  /\ owned' = [owned EXCEPT ![p].strong = @ - 1]
  /\ UNCHANGED <<frame, T, handles, ref_calls, trip>>

\* The program drops a weak pointer it holds.
DropWeak(p) ==
  /\ T \in WeakT
  /\ owned[p].weak > 0
  /\ Commit(drop(World, Value(WeakTyOf(T), p)))
  /\ owned' = [owned EXCEPT ![p].weak = @ - 1]
  /\ UNCHANGED <<frame, T, handles, ref_calls, trip>>

\* value.into_waker(): a fresh zero-sized waker, or a pointer the program
\* holds, becomes a Waker.
IntoWaker(p) ==
  /\ T \in Sendable
  /\ HasSlot
  /\ IF T \in ZeroSized THEN p = Null ELSE p \in Addr /\ Holds(T, p)
  /\ LET r == into_waker(World, Value(T, p))
     IN /\ Commit(r.w)
        /\ handles' = [handles EXCEPT ![FreshSlot] =
             [st |-> "live", ptr |-> r.ptr, vtable |-> r.vtable,
              parent |-> 0]]
  /\ owned' = IF T \in ZeroSized THEN owned ELSE Take(T, p)
  /\ UNCHANGED <<frame, T, ref_calls, trip>>

\* Waker::clone: (vtable.clone)(data).
WakerClone(h) ==
  /\ handles[h].st = "live"
  /\ HasSlot
  /\ clone_count < MaxHandles
  /\ T \in BoxT => HasFree(heap)
  /\ LET r == vt_clone(World, handles[h].vtable, handles[h].ptr)
     IN /\ Commit(r.w)
        /\ handles' = IF r.made
                      THEN [handles EXCEPT ![FreshSlot] =
                             [st |-> "live", ptr |-> r.ptr,
                              vtable |-> r.vtable, parent |-> h]]
                      ELSE handles
  /\ UNCHANGED <<frame, T, owned, ref_calls, trip>>

\* Waker::wake_by_ref: (vtable.wake_by_ref)(data).
WakerWakeByRef(h) ==
  /\ handles[h].st = "live"
  /\ RefCalls(MaxAddr) < MaxRef
  /\ Commit(vt_wake_by_ref(World, handles[h].vtable, handles[h].ptr))
  /\ ref_calls' = [ref_calls EXCEPT ![handles[h].ptr] = @ + 1]
  /\ UNCHANGED <<frame, T, owned, handles, trip>>

\* Waker::wake: the Waker is forgotten, then (vtable.wake)(data).
WakerWake(h) ==
  /\ handles[h].st = "live"
  /\ Commit(vt_wake(World, handles[h].vtable, handles[h].ptr))
  /\ handles' = [handles EXCEPT ![h].st = "woken"]
  /\ UNCHANGED <<frame, T, owned, ref_calls, trip>>

\* Drop for Waker: (vtable.drop)(data).
WakerDrop(h) ==
  /\ handles[h].st = "live"
  /\ Commit(vt_drop(World, handles[h].vtable, handles[h].ptr))
  /\ handles' = [handles EXCEPT ![h].st = "dropped"]
  /\ UNCHANGED <<frame, T, owned, ref_calls, trip>>

\* A wrapper that is not Send + Sync is woken through the traits directly:
\* value.wake_by_ref().
TraitWakeByRef(p) ==
  /\ T \in Types \ Sendable
  /\ Holds(T, p)
  /\ RefCalls(MaxAddr) < MaxRef
  /\ Commit(wake_by_ref(World, Value(T, p)))
  /\ ref_calls' = [ref_calls EXCEPT ![p] = @ + 1]
  /\ UNCHANGED <<frame, T, owned, handles, trip>>

\* value.wake(): consumes the pointer the program holds.
TraitWake(p) ==
  /\ T \in Types \ Sendable
  /\ Holds(T, p)
  /\ RefCalls(MaxAddr) < MaxRef
  /\ Commit(wake(World, Value(T, p)))
  /\ ref_calls' = [ref_calls EXCEPT ![p] = @ + 1]
  /\ owned' = Take(T, p)
  /\ UNCHANGED <<frame, T, handles, trip>>

\* from_raw(into_raw(v)), and into_raw once more, on a pointer the program
\* holds.
RoundTrip(p) ==
  /\ T \notin ZeroSized
  /\ Holds(T, p)
  /\ LET r1 == into_raw(World, Value(T, p))
         v2 == from_raw(T, r1.ptr)
         r2 == into_raw(r1.w, v2)
         v3 == from_raw(T, r2.ptr)
     IN /\ Commit(r2.w)
        /\ trip' = [raw |-> r1.ptr, raw2 |-> r2.ptr, val |-> v3]
  /\ UNCHANGED <<frame, T, owned, handles, ref_calls>>

\* Some(value).into_waker() / None.into_waker() for an Option<T>.
IntoWakerOption(some, p) ==
  /\ T \in OptionT
  /\ HasSlot
  /\ IF some /\ Inner(T) \in StrongT THEN p \in Addr /\ Holds(T, p) ELSE p = Null
  /\ LET r == into_waker(World, IF some THEN Some(T, p) ELSE None(T))
     IN /\ Commit(r.w)
        /\ handles' = [handles EXCEPT ![FreshSlot] =
             [st |-> "live", ptr |-> r.ptr, vtable |-> r.vtable,
              parent |-> 0, some |-> some]]
  /\ owned' = IF p = Null THEN owned ELSE Take(T, p)
  /\ UNCHANGED <<frame, T, ref_calls, trip>>

\* from_raw(into_raw(o)), and into_raw once more, for an Option<T>; the
\* pointer is given back to the program's own value afterwards.
OptionRoundTrip(some, p) ==
  /\ T \in OptionT
  /\ IF some /\ Inner(T) \in StrongT THEN p \in Addr /\ Holds(T, p) ELSE p = Null
  /\ LET r1 == into_raw(World, IF some THEN Some(T, p) ELSE None(T))
         v2 == from_raw(T, r1.ptr)
         r2 == into_raw(r1.w, v2)
         v3 == from_raw(T, r2.ptr)
     IN /\ Commit(r2.w)
        /\ trip' = [raw |-> r1.ptr, raw2 |-> r2.ptr, val |-> v3]
  /\ UNCHANGED <<frame, T, owned, handles, ref_calls>>

Next ==
  \/ New
  \/ \E p \in Addr : CloneOwned(p)
  \/ \E p \in Addr : Downgrade(p)
  \/ \E p \in Addr : DropStrong(p)
  \/ \E p \in Addr : DropWeak(p)
  \/ \E p \in Addr \cup {Null} : IntoWaker(p)
  \/ \E h \in Handles : WakerClone(h)
  \/ \E h \in Handles : WakerWakeByRef(h)
  \/ \E h \in Handles : WakerWake(h)
  \/ \E h \in Handles : WakerDrop(h)
  \/ \E p \in Addr : TraitWakeByRef(p)
  \/ \E p \in Addr : TraitWake(p)
  \/ \E p \in Addr : RoundTrip(p)

Spec == Init /\ [][Next]_vars

\* value.into_waker() for the faulting types: an Arc<PanicWaker> the program
\* holds, a fresh zero-sized waker, or a waker made with any pointer value.
IntoWakerFault(p) ==
  /\ T \in FaultT
  /\ HasSlot
  /\ CASE T = "ArcPanic" -> p \in Addr /\ Holds(T, p)
       [] T = "PanicClone" -> p = Null
       [] T = "Unstable" -> p \in Addr
  /\ LET r == into_waker(World, Value(T, p))
     IN /\ Commit(r.w)
        /\ handles' = [handles EXCEPT ![FreshSlot] =
             [st |-> "live", ptr |-> r.ptr, vtable |-> r.vtable,
              parent |-> 0]]
  /\ owned' = IF T = "ArcPanic" THEN Take(T, p) ELSE owned
  /\ UNCHANGED <<frame, T, ref_calls, trip>>

\* A program over the faulting types, in a debug or a release build.
FaultInit ==
  /\ T \in FaultT
  /\ debug_assertions \in BOOLEAN
  /\ Fresh
  /\ Unused

FaultNext ==
  \/ New
  \/ \E p \in Addr : DropStrong(p)
  \/ \E p \in Addr \cup {Null} : IntoWakerFault(p)
  \/ \E h \in Handles : WakerClone(h)
  \/ \E h \in Handles : WakerWakeByRef(h)
  \/ \E h \in Handles : WakerWake(h)
  \/ \E h \in Handles : WakerDrop(h)

FaultSpec == FaultInit /\ [][FaultNext]_vars

\* A program over Option<T>.
OptionInit ==
  /\ T \in OptionT
  /\ debug_assertions = TRUE
  /\ Fresh
  /\ Unused

OptionNext ==
  \/ New
  \/ \E p \in Addr : DropStrong(p)
  \/ \E some \in BOOLEAN : \E p \in Addr \cup {Null} : IntoWakerOption(some, p)
  \/ \E h \in Handles : WakerClone(h)
  \/ \E h \in Handles : WakerWakeByRef(h)
  \/ \E h \in Handles : WakerWake(h)
  \/ \E h \in Handles : WakerDrop(h)
  \/ \E some \in BOOLEAN : \E p \in Addr \cup {Null} : OptionRoundTrip(some, p)

OptionSpec == OptionInit /\ [][OptionNext]_vars

\* ------------------------------------------------------------ the derives
\* WakeTrait::method, and WakeTrait::apply_reference: `&` in front for WakeRef.
method(spec) == IF spec = "Wake" THEN "wake" ELSE "wake_by_ref"
apply_reference(spec, tokens) == [ref |-> spec = "WakeRef", tokens |-> tokens]

\* A macro that panics: a compile-time error and no implementation.
Panic(msg) == [ok |-> FALSE, error |-> msg]

\* Mutant of derive_wake_like: only an empty field list is rejected, and the
\* first field is taken.
derive_wake_like_first_field(spec, item) ==
  IF item.data = "struct" /\ item.fields # "unit" /\ item.len >= 1
  THEN [ok |-> TRUE,
        impl |-> [trait |-> spec, method |-> method(spec),
                  self_param |-> apply_reference(spec, <<"self">>),
                  callee |-> <<spec, method(spec)>>,
                  field_invocation |->
                    apply_reference(spec, <<"self", IF item.fields = "named"
                                                     THEN "name" ELSE "0">>),
                  predicate |-> <<"field_type", spec>>]]
  ELSE Panic("rejected")

\* derive_wake_like: the Wake and WakeRef derives.
derive_wake_like(spec, item) ==
  CASE item.data = "struct" ->
         IF item.fields = "unit"
         THEN Panic("can only be derived on structs with a single field")
         ELSE IF item.len # 1
         THEN Panic("Can only derive on structs with exactly 1 field")
         ELSE LET field_name == IF item.fields = "named" THEN "name" ELSE "0"
              IN [ok |-> TRUE,
                  impl |-> [trait |-> spec, method |-> method(spec),
                            self_param |-> apply_reference(spec, <<"self">>),
                            callee |-> <<spec, method(spec)>>,
                            field_invocation |->
                              apply_reference(spec, <<"self", field_name>>),
                            predicate |-> <<"field_type", spec>>]]
    [] item.data = "enum" -> Panic("derive(Wake) for enums is still WIP")
    [] item.data = "union" ->
         Panic("can only be derived for struct or enum types")

\* into_waker_derive: the IntoWaker derive (both derive crates).
into_waker_derive(item) ==
  IF item.generics # 0
  THEN Panic("IntoWaker can only be derived for concrete types")
  ELSE [ok |-> TRUE, impl |-> [trait |-> "IntoWaker", method |-> "into_waker"]]

\* #[derive(Wake)], #[derive(WakeRef)], #[derive(IntoWaker)].
derive(item) ==
  IF item.macro = "IntoWaker" THEN into_waker_derive(item)
  ELSE derive_wake_like(item.macro, item)

\* The items a derive can be given: a struct with named or positional
\* fields, a unit struct, an enum or a union.
Items ==
  {i \in [macro : {"Wake", "WakeRef", "IntoWaker"},
          data : {"struct", "enum", "union"},
          fields : {"named", "unnamed", "unit"},
          len : 0..MaxFields,
          generics : 0..MaxGenerics] :
     /\ i.fields = "unit" => i.len = 0
     /\ i.data # "struct" => i.fields = "unit"}

DeriveInit ==
  /\ input \in Items
  /\ output = Pending
  /\ stowed = NoStowed
  /\ ctx = [c \in Ctx |-> NoCall]
  /\ T = "StaticWaker"
  /\ debug_assertions = TRUE
  /\ Fresh

\* The compiler expands the derive.
Expand ==
  /\ output = Pending
  /\ output' = derive(input)
  /\ UNCHANGED <<debug_assertions, input, stowed, ctx, T, heap, owned, handles, ref_calls,
                 panics, trip, wake_ref_count, wake_value_count, drop_count,
                 clone_count>>

DeriveNext == Expand

DeriveSpec == DeriveInit /\ [][DeriveNext]_vars

\* ------------------------------------------------- the derived IntoWaker
\* The world of the value behind the table the IntoWaker derive generates.
Stowed ==
  [heap |-> heap, wake_ref_count |-> stowed.wake_ref_count,
   wake_value_count |-> stowed.wake_value_count,
   drop_count |-> stowed.drop_count, clone_count |-> stowed.clone_count,
   panicked |-> FALSE, log |-> <<>>]

\* The counters a call on the derived table leaves.
Restow(w) ==
  [wake_ref_count |-> w.wake_ref_count, wake_value_count |-> w.wake_value_count,
   drop_count |-> w.drop_count, clone_count |-> w.clone_count,
   panics |-> IF w.panicked THEN stowed.panics + 1 ELSE stowed.panics]

\* Generated clone: Clone::clone on the value borrowed in place with
\* ref_from_stowed, and the clone stowed: [w, made].
dv_clone(w, ty, raw) ==
  LET c == clone(w, Value(ty, raw))
  IN [w |-> c.w, made |-> ~c.w.panicked]

\* Mutant of dv_wake: wakes the value borrowed in place, then drops it.
dv_wake_borrows(w, ty, raw) ==
  drop(wake_by_ref(w, Value(ty, raw)), Value(ty, raw))

\* Generated wake by value: Wake::wake on the value taken out with unstow.
dv_wake(w, ty, raw) == wake(w, Value(ty, raw))

\* Mutant of dv_wake_by_ref: the value is taken out with unstow, woken by
\* reference and stowed again, so a panic in between drops it.
dv_wake_by_ref_unstows(w, ty, raw) ==
  IF wake_by_ref(w, Value(ty, raw)).panicked
  THEN drop(wake_by_ref(w, Value(ty, raw)), Value(ty, raw))
  ELSE wake_by_ref(w, Value(ty, raw))

\* Generated wake by ref: WakeRef::wake_by_ref on the value borrowed in place.
dv_wake_by_ref(w, ty, raw) == wake_by_ref(w, Value(ty, raw))

\* Generated drop: the Stowaway made with from_raw is dropped.
dv_drop(w, ty, raw) == drop(w, Value(ty, raw))

\* Generated into_waker: Stowaway::new(self), Stowaway::into_raw.
dv_into_waker(w, v) == w

\* The concrete waker types the derive is used on here: the zero-sized
\* wakers, one of which panics in wake_by_ref, and one whose Clone panics.
StowedT == ZeroSized \cup {"PanicClone"}

\* The same zero-sized value converted by both designs.
DualIntoWaker ==
  /\ T \in StowedT
  /\ HasSlot
  /\ LET r == into_waker(World, Value(T, Null))
     IN /\ Commit(r.w)
        /\ handles' = [handles EXCEPT ![FreshSlot] =
             [st |-> "live", ptr |-> r.ptr, vtable |-> r.vtable,
              parent |-> 0]]
  /\ stowed' = Restow(dv_into_waker(Stowed, Value(T, Null)))
  /\ UNCHANGED <<debug_assertions, input, output, ctx, T, owned, ref_calls, trip>>

\* Waker::clone on both Wakers.
DualClone(h) ==
  /\ handles[h].st = "live"
  /\ HasSlot
  /\ clone_count < MaxHandles
  /\ LET r == vt_clone(World, handles[h].vtable, handles[h].ptr)
         d == dv_clone(Stowed, T, handles[h].ptr)
     IN /\ Commit(r.w)
        /\ stowed' = Restow(d.w)
        /\ handles' = IF r.made
                      THEN [handles EXCEPT ![FreshSlot] =
                             [st |-> "live", ptr |-> r.ptr,
                              vtable |-> r.vtable, parent |-> h]]
                      ELSE handles
  /\ UNCHANGED <<debug_assertions, input, output, ctx, T, owned, ref_calls, trip>>

\* Waker::wake_by_ref on both Wakers.
DualWakeByRef(h) ==
  /\ handles[h].st = "live"
  /\ RefCalls(MaxAddr) < MaxRef
  /\ Commit(vt_wake_by_ref(World, handles[h].vtable, handles[h].ptr))
  /\ stowed' = Restow(dv_wake_by_ref(Stowed, T, handles[h].ptr))
  /\ ref_calls' = [ref_calls EXCEPT ![handles[h].ptr] = @ + 1]
  /\ UNCHANGED <<debug_assertions, input, output, ctx, T, owned, handles, trip>>

\* Waker::wake on both Wakers.
DualWake(h) ==
  /\ handles[h].st = "live"
  /\ Commit(vt_wake(World, handles[h].vtable, handles[h].ptr))
  /\ stowed' = Restow(dv_wake(Stowed, T, handles[h].ptr))
  /\ handles' = [handles EXCEPT ![h].st = "woken"]
  /\ UNCHANGED <<debug_assertions, input, output, ctx, T, owned, ref_calls, trip>>

\* Both Wakers are dropped.
DualDrop(h) ==
  /\ handles[h].st = "live"
  /\ Commit(vt_drop(World, handles[h].vtable, handles[h].ptr))
  /\ stowed' = Restow(dv_drop(Stowed, T, handles[h].ptr))
  /\ handles' = [handles EXCEPT ![h].st = "dropped"]
  /\ UNCHANGED <<debug_assertions, input, output, ctx, T, owned, ref_calls, trip>>

DualInit ==
  /\ T \in StowedT
  /\ debug_assertions = TRUE
  /\ Fresh
  /\ Unused

DualNext ==
  \/ DualIntoWaker
  \/ \E h \in Handles : DualClone(h)
  \/ \E h \in Handles : DualWakeByRef(h)
  \/ \E h \in Handles : DualWake(h)
  \/ \E h \in Handles : DualDrop(h)

DualSpec == DualInit /\ [][DualNext]_vars

\* ------------------------------------------- concurrent execution contexts
\* Waker is Send + Sync: contexts call into the VTABLE at the same time.  A
\* call is a sequence of steps, each one atomic access to the shared counts.
ConcT == {"Arc", "ArcWeak", "Box"}
Borrowing == {"clone", "wake_by_ref"}
Consuming == {"wake", "drop"}
Waking == {"wake", "wake_by_ref"}

\* Mutant of FirstPc: a Weak wakes its target without upgrading first.
FirstPc_no_upgrade(op, ty) ==
  CASE op = "drop" /\ ty \in StrongT -> "release"
    [] op = "drop" /\ ty \in WeakT -> "drop_self"
    [] OTHER -> "call"

\* What a closure does first with the value it rebuilt.
FirstPc(op, ty) ==
  CASE op = "drop" /\ ty \in StrongT -> "release"
    [] op = "drop" /\ ty \in WeakT -> "drop_self"
    [] op \in Waking /\ ty \in WeakT -> "upgrade"
    [] OTHER -> "call"

\* Mutant of AfterCall: wake by value forgets self instead of dropping it.
AfterCall_forgets(op, ty) ==
  CASE op = "clone" -> "into_raw"
    [] ty \in WeakT -> "release"
    [] op = "wake_by_ref" -> "into_raw"
    [] OTHER -> "idle"

\* What follows the call of the value's method: the temporary Arc of a Weak
\* and the self of a by-value wake are dropped, a borrowed value is given back.
AfterCall(op, ty) ==
  CASE op = "clone" -> "into_raw"
    [] ty \in WeakT -> "release"
    [] op = "wake" /\ ty \in StrongT -> "release"
    [] op = "wake_by_ref" -> "into_raw"
    [] OTHER -> "idle"

\* What follows the drop of an Arc, or an upgrade that gave None.
AfterRelease(op, ty) ==
  CASE ty \in WeakT /\ op = "wake_by_ref" -> "into_raw"
    [] ty \in WeakT /\ op = "wake" -> "drop_self"
    [] OTHER -> "idle"

\* Arc's Drop, first half: strong.fetch_sub(1).
fetch_sub_strong(w, p) == [w EXCEPT !.heap[p].strong = @ - 1]

\* Arc's Drop, second half, run by whoever released the last strong pointer:
\* the pointee is dropped, then the weak reference the strong ones share.
Arc_drop_slow(w, p) ==
  [w EXCEPT !.heap[p].dropped = @ + 1,
            !.heap[p].freed = IF w.heap[p].weak = 0 THEN @ + 1 ELSE @]

\* Weak's Drop: weak.fetch_sub(1); the last one of a dropped pointee frees.
Weak_drop(w, p) ==
  [w EXCEPT !.heap[p].weak = @ - 1,
            !.heap[p].freed = IF w.heap[p].weak = 1 /\ w.heap[p].dropped > 0
                              THEN @ + 1 ELSE @]

\* The value's method a closure calls on the value it rebuilt.
Callee(w, op, v) ==
  CASE op = "clone" -> clone(w, v).w
    [] v.ty \in WeakT -> Counter_wake_by_ref(w, v.ptr)
    [] v.ty \in StrongT -> Arc_wake_by_ref(w, v)
    [] v.ty \in BoxT /\ op = "wake_by_ref" -> Box_wake_by_ref(w, v)
    [] v.ty \in BoxT /\ op = "wake" -> Box_wake(w, v)
    [] v.ty \in BoxT /\ op = "drop" -> Box_drop(w, v.ptr)

Goto(c, pc) ==
  ctx' = [ctx EXCEPT ![c] = IF pc = "idle" THEN NoCall
                            ELSE [ctx[c] EXCEPT !.pc = pc]]

InFlight(h) == {c \in Ctx : ctx[c].op # "idle" /\ ctx[c].h = h}
InFlightOn(p) == {c \in Ctx : ctx[c].op # "idle" /\ ctx[c].waker.ptr = p}
Cloning == {c \in Ctx : ctx[c].op = "clone"}

\* A context enters the closure of a Waker operation:
\* `let waker: T = unsafe { ViaRawPointer::from_raw(raw) }`.  Waker::wake and
\* Waker's Drop take the Waker by value, so nothing else is running on it.
Begin(c, op, h) ==
  /\ ctx[c].op = "idle"
  /\ handles[h].st = "live"
  /\ op \in Consuming => InFlight(h) = {}
  /\ op = "wake_by_ref" => RefCalls(MaxAddr) < MaxRef
  /\ op = "clone" =>
       /\ Cardinality({g \in Handles : handles[g].st # "unused"})
            + Cardinality(Cloning) < MaxHandles
       /\ T \in BoxT =>
            Cardinality({p \in Addr : heap[p].kind = "none"})
              > Cardinality(Cloning)
  /\ ctx' = [ctx EXCEPT ![c] =
       [op |-> op, h |-> h, waker |-> from_raw(T, handles[h].ptr),
        cloned |-> NoValue, pc |-> FirstPc(op, T), up |-> FALSE]]
  /\ handles' = IF op \in Consuming
                THEN [handles EXCEPT ![h].st =
                        IF op = "wake" THEN "woken" ELSE "dropped"]
                ELSE handles
  /\ ref_calls' = IF op = "wake_by_ref"
                  THEN [ref_calls EXCEPT ![handles[h].ptr] = @ + 1]
                  ELSE ref_calls
  /\ UNCHANGED <<debug_assertions, input, output, stowed, T, heap, owned,
                 panics, trip, wake_ref_count, wake_value_count, drop_count,
                 clone_count>>

\* A context starts to drop the Arc the program holds.
ExtDropBegin(c, p) ==
  /\ ctx[c].op = "idle"
  /\ KindOf(T) = "arc"
  /\ owned[p].strong > 0
  /\ owned' = [owned EXCEPT ![p].strong = @ - 1]
  /\ ctx' = [ctx EXCEPT ![c] =
       [op |-> "ext_drop", h |-> 0, waker |-> Value("Arc", p),
        cloned |-> NoValue, pc |-> "release", up |-> FALSE]]
  /\ UNCHANGED <<debug_assertions, input, output, stowed, T, heap, handles,
                 ref_calls, panics, trip, wake_ref_count, wake_value_count,
                 drop_count, clone_count>>

\* self.upgrade() of Weak's wake_by_ref.
Upgrade(c) ==
  /\ ctx[c].pc = "upgrade"
  /\ LET u == upgrade(World, ctx[c].waker)
     IN /\ Commit(u.w)
        /\ ctx' = [ctx EXCEPT ![c] =
             IF u.some THEN [ctx[c] EXCEPT !.pc = "call", !.up = TRUE]
             ELSE [ctx[c] EXCEPT
                     !.pc = AfterRelease(ctx[c].op, ctx[c].waker.ty)]]
  /\ UNCHANGED <<debug_assertions, input, output, stowed, T, owned, handles,
                 ref_calls, trip>>

\* The closure calls the value's method: clone, wake, wake_by_ref, or Box's Drop.
Call(c) ==
  /\ ctx[c].pc = "call"
  /\ Commit(Callee(World, ctx[c].op, ctx[c].waker))
  /\ ctx' = [ctx EXCEPT ![c] =
       LET pc == AfterCall(ctx[c].op, ctx[c].waker.ty)
       IN IF pc = "idle" THEN NoCall
          ELSE [ctx[c] EXCEPT
                  !.pc = pc,
                  !.cloned = IF ctx[c].op = "clone"
                             THEN clone(World, ctx[c].waker).val ELSE @]]
  /\ UNCHANGED <<debug_assertions, input, output, stowed, T, owned, handles,
                 ref_calls, trip>>

\* An Arc goes out of scope: the strong count goes down by one.
Release(c) ==
  /\ ctx[c].pc = "release"
  /\ LET w == fetch_sub_strong(World, ctx[c].waker.ptr)
     IN /\ Commit(w)
        /\ ctx' = [ctx EXCEPT ![c] =
             IF w.heap[ctx[c].waker.ptr].strong = 0
             THEN [ctx[c] EXCEPT !.pc = "drop_slow", !.up = FALSE]
             ELSE LET pc == AfterRelease(ctx[c].op, ctx[c].waker.ty)
                  IN IF pc = "idle" THEN NoCall
                     ELSE [ctx[c] EXCEPT !.pc = pc, !.up = FALSE]]
  /\ UNCHANGED <<debug_assertions, input, output, stowed, T, owned, handles,
                 ref_calls, trip>>

\* The context that released the last Arc tears the target down.
DropSlow(c) ==
  /\ ctx[c].pc = "drop_slow"
  /\ Commit(Arc_drop_slow(World, ctx[c].waker.ptr))
  /\ Goto(c, AfterRelease(ctx[c].op, ctx[c].waker.ty))
  /\ UNCHANGED <<debug_assertions, input, output, stowed, T, owned, handles,
                 ref_calls, trip>>

\* The Weak of a by-value wake or of a dropped Waker goes out of scope.
DropSelf(c) ==
  /\ ctx[c].pc = "drop_self"
  /\ Commit(Weak_drop(World, ctx[c].waker.ptr))
  /\ Goto(c, "idle")
  /\ UNCHANGED <<debug_assertions, input, output, stowed, T, owned, handles,
                 ref_calls, trip>>

\* The closure gives the borrowed value back: `waker.into_raw()`, the
\* debug assertion, and for clone the new RawWaker.
Return(c) ==
  /\ ctx[c].pc = "into_raw"
  /\ LET r == into_raw(World, ctx[c].waker)
         a == debug_assert_eq(r.w, r.ptr, handles[ctx[c].h].ptr)
     IN /\ Commit(a)
        /\ handles' =
             IF ctx[c].op = "clone"
             THEN [handles EXCEPT ![FreshSlot] =
                     [st |-> "live", ptr |-> into_raw(a, ctx[c].cloned).ptr,
                      vtable |-> VTABLE(T), parent |-> ctx[c].h]]
             ELSE handles
  /\ Goto(c, "idle")
  /\ UNCHANGED <<debug_assertions, input, output, stowed, T, owned,
                 ref_calls, trip>>

\* One target, one pointer to it turned into a Waker, and for the shared
\* pointers the Arc the program keeps: `counter_handle.clone().into_waker()`.
ConcInit ==
  /\ T \in ConcT
  /\ debug_assertions = TRUE
  /\ heap = [p \in Addr |->
       IF p = 1
       THEN [NoCell EXCEPT !.kind = KindOf(T),
                           !.strong = IF T = "Arc" THEN 2 ELSE 1,
                           !.weak = IF T = "ArcWeak" THEN 1 ELSE 0]
       ELSE NoCell]
  /\ owned = [p \in Addr |->
       IF p = 1 /\ KindOf(T) = "arc" THEN [strong |-> 1, weak |-> 0]
       ELSE NoOwned]
  /\ handles = [h \in Handles |->
       IF h = 1
       THEN [st |-> "live", ptr |-> 1, vtable |-> VTABLE(T), parent |-> 0]
       ELSE NoHandle]
  /\ ref_calls = [p \in Addr \cup {Null} |-> 0]
  /\ panics = 0
  /\ trip = NoTrip
  /\ wake_ref_count = 0
  /\ wake_value_count = 0
  /\ drop_count = 0
  /\ clone_count = 0
  /\ Unused

ConcNext ==
  \/ \E c \in Ctx, h \in Handles, op \in Borrowing \cup Consuming :
       Begin(c, op, h)
  \/ \E c \in Ctx, p \in Addr : ExtDropBegin(c, p)
  \/ \E c \in Ctx : Upgrade(c)
  \/ \E c \in Ctx : Call(c)
  \/ \E c \in Ctx : Release(c)
  \/ \E c \in Ctx : DropSlow(c)
  \/ \E c \in Ctx : DropSelf(c)
  \/ \E c \in Ctx : Return(c)

ConcSpec == ConcInit /\ [][ConcNext]_vars

\* ------------------------------------------------------------- the claims
Used == {h \in Handles : handles[h].st # "unused"}
Live == {h \in Handles : handles[h].st = "live"}
Consumed == {h \in Handles : handles[h].st \in {"woken", "dropped"}}
Woken(p) == {h \in Handles : handles[h].st = "woken" /\ handles[h].ptr = p}
LiveOn(p) == {h \in Live : handles[h].ptr = p}
Roots == {h \in Used : handles[h].parent = 0}
Clones == {h \in Used : handles[h].parent # 0}

\* Waker::will_wake: the same data pointer and the same vtable.
will_wake(a, b) ==
  /\ handles[a].ptr = handles[b].ptr
  /\ handles[a].vtable = handles[b].vtable

\* C1: for the PanicWaker of test::panic_wake every wake_by_ref through a
\* Waker reaches the caller as a panic and runs no teardown: the drop count
\* is the number of Wakers consumed so far (0 until the first consuming wake,
\* 1 after it, 2 once the clone is dropped too), and wake ran once per
\* consuming wake.
C1_PanicWakeByRefRunsNoTeardown ==
  T = "PanicWaker" =>
    /\ panics = ref_calls[Null]
    /\ wake_value_count = Cardinality(Woken(Null))
    /\ drop_count = Cardinality(Consumed)

\* C2: for a zero-sized waker with a counting destructor, as long as nothing
\* has panicked, the teardown count is exactly the number of Wakers consumed
\* (by wake or by drop): conversion, clone and wake_by_ref run none, and once
\* the n clones of one converted value and the original are all consumed the
\* count is n + 1.
C2_OneTeardownPerConsumedWaker ==
  (T \in ZeroSized /\ panics = 0) =>
    /\ drop_count = Cardinality(Consumed)
    /\ (Cardinality(Roots) = 1 /\ Live = {}) => drop_count = clone_count + 1

C2_Witness ==
  /\ T = "StaticWaker"
  /\ Cardinality(Clones) = 1
  /\ Live = {}
  /\ drop_count = 2
  /\ wake_ref_count > 0

\* C3: for Wakers made from Arc<Counter>, the counter reads the number of
\* wake_by_ref calls plus the number of consuming wakes made on the Wakers
\* of that target, each consuming wake released exactly its own strong
\* pointer, and a target the program still holds is alive and readable.
C3_ArcWakeIsWakeByRefThenRelease ==
  T = "Arc" =>
    \A p \in Addr : heap[p].kind = "arc" =>
      /\ heap[p].count = ref_calls[p] + Cardinality(Woken(p))
      /\ heap[p].strong = owned[p].strong + Cardinality(LiveOn(p))
      /\ heap[p].stale = 0
      /\ owned[p].strong > 0 => heap[p].dropped = 0 /\ heap[p].freed = 0

C3_Witness ==
  /\ T = "Arc"
  /\ \E p \in Addr :
       /\ heap[p].count = 4
       /\ Woken(p) # {}
       /\ ref_calls[p] > 0
       /\ owned[p].strong > 0

\* C4: every Waker carries the one VTABLE of its wrapped type, and a Waker
\* cloned from an Arc-backed Waker will_wake its parent: same data pointer,
\* same vtable, whatever wake_by_ref and clone calls were made since.
C4_ArcCloneWillWakeParent ==
  /\ \A h \in Used : handles[h].vtable = VTABLE(T)
  /\ T = "Arc" => \A h \in Clones : will_wake(h, handles[h].parent)

C4_Witness ==
  /\ T = "Arc"
  /\ \E h \in Clones :
       /\ handles[h].st = "live"
       /\ handles[handles[h].parent].st = "live"
       /\ ref_calls[handles[h].ptr] > 0

\* What a live Waker needs of its target: the pointee of a strong pointer or
\* a Box is not torn down, and no allocation is released under a pointer.
TargetValid(h) ==
  LET c == heap[handles[h].ptr]
  IN CASE T \in ZeroSized -> TRUE
       [] T \in StrongT -> c.strong > 0 /\ c.dropped = 0 /\ c.freed = 0
       [] T \in BoxT -> c.strong = 1 /\ c.dropped = 0 /\ c.freed = 0
       [] T \in WeakT -> c.weak > 0 /\ c.freed = 0

\* Whether this step ran the wrapped value's wake_by_ref on h's target once.
InvokedWakeByRef(h) ==
  LET p == handles[h].ptr
  IN CASE T \in ZeroSized \cup BoxT -> wake_ref_count' = wake_ref_count + 1
       [] T \in StrongT -> heap'[p].count = heap[p].count + 1
       [] T \in WeakT ->
            heap'[p].count = heap[p].count + (IF heap[p].strong > 0 THEN 1 ELSE 0)

\* C5: dropping a Waker leaves each live clone of it live with its target
\* intact and runs one teardown at most, and wake_by_ref on a Waker whose
\* parent was dropped still runs the wrapped value's wake_by_ref.
C5_CloneOutlivesOriginal ==
  [][\A h \in Handles :
       /\ WakerDrop(h) =>
            /\ drop_count' <= drop_count + 1
            /\ \A c \in Live : handles[c].parent = h =>
                 (handles'[c] = handles[c] /\ TargetValid(c)')
       /\ \A c \in Live :
            (handles[c].parent = h /\ handles[h].st = "dropped"
               /\ WakerWakeByRef(c)) =>
              (InvokedWakeByRef(c) /\ handles'[c].st = "live")
  ]_vars

C5_Witness ==
  \E c \in Live :
    /\ handles[c].parent # 0
    /\ handles[handles[c].parent].st = "dropped"
    /\ ref_calls[handles[c].ptr] > 0
    /\ T \in {"Arc", "Box"}

C7_BorrowingCallsKeepTheWaker ==
  [][\A h \in Handles :
       LET p == handles[h].ptr
           Kept == /\ handles'[h] = handles[h]
                   /\ TargetValid(h)'
                   /\ drop_count' = drop_count
                   /\ T \notin ZeroSized =>
                        /\ heap'[p].dropped = heap[p].dropped
                        /\ heap'[p].freed = heap[p].freed
       IN /\ (WakerWakeByRef(h) /\ panics' = panics) =>
               /\ Kept
               /\ T \notin ZeroSized =>
                    /\ heap'[p].strong = heap[p].strong
                    /\ heap'[p].weak = heap[p].weak
          /\ (WakerClone(h) /\ panics' = panics) =>
               /\ Kept
               /\ T \in StrongT =>
                    /\ heap'[p].strong = heap[p].strong + 1
                    /\ heap'[p].weak = heap[p].weak
               /\ T \in WeakT =>
                    /\ heap'[p].strong = heap[p].strong
                    /\ heap'[p].weak = heap[p].weak + 1
               /\ T \in BoxT =>
                    /\ heap'[p] = heap[p]
                    /\ \E g \in Handles :
                         /\ handles[g].st = "unused"
                         /\ handles'[g].ptr # p
                         /\ heap'[handles'[g].ptr] = NewCell("box")
  ]_vars

C7_Witness ==
  /\ T \in {"Arc", "ArcWeak", "Box"}
  /\ panics = 0
  /\ \E h \in Live :
       /\ ref_calls[handles[h].ptr] > 0
       /\ \E c \in Clones : handles[c].parent = h

\* C8: each dispatch operation calls the matching capability of the wrapped
\* type once and no other: wake bumps the wake-by-value counter only,
\* wake_by_ref the wake-by-reference counter only, clone the duplicate count
\* only, and drop none of them; no Counter is bumped by clone or drop.
C8_DispatchCallsMatchingCapability ==
  [][\A h \in Handles :
       LET Counts == <<wake_value_count, wake_ref_count, clone_count>>
           Quiet == \A p \in Addr : heap'[p].count = heap[p].count
       IN /\ (WakerWake(h) /\ T \in ZeroSized \cup BoxT) =>
               Counts' = <<wake_value_count + 1, wake_ref_count, clone_count>>
          /\ (WakerWakeByRef(h) /\ T \in ZeroSized \cup BoxT) =>
               Counts' = <<wake_value_count, wake_ref_count + 1, clone_count>>
          /\ WakerClone(h) =>
               /\ Counts' = <<wake_value_count, wake_ref_count, clone_count + 1>>
               /\ Quiet
          /\ WakerDrop(h) =>
               /\ Counts' = Counts
               /\ Quiet
  ]_vars

C8_Witness ==
  /\ T = "StaticWaker"
  /\ wake_ref_count = 2
  /\ wake_value_count = 1
  /\ drop_count = 1
  /\ clone_count = 1
  /\ Cardinality(Live) = 1

\* C9: for a Box, wake_by_ref runs the inner wake_by_ref once and leaves the
\* Box and its allocation as they were; consuming wake runs the inner wake
\* (by value) once and no wake_by_ref, tears the inner value down once and
\* releases the allocation once, and touches no other allocation.
C9_BoxForwardsAndConsumes ==
  [][(T \in BoxT) => \A h \in Handles :
       LET p == handles[h].ptr
       IN /\ WakerWakeByRef(h) =>
               /\ wake_ref_count' = wake_ref_count + 1
               /\ wake_value_count' = wake_value_count
               /\ drop_count' = drop_count
               /\ heap' = heap
          /\ WakerWake(h) =>
               /\ wake_value_count' = wake_value_count + 1
               /\ wake_ref_count' = wake_ref_count
               /\ drop_count' = drop_count + 1
               /\ heap[p].dropped = 0 /\ heap'[p].dropped = 1
               /\ heap[p].freed = 0 /\ heap'[p].freed = 1
               /\ \A q \in Addr \ {p} : heap'[q] = heap[q]
  ]_vars

C9_Witness ==
  /\ T = "Box"
  /\ \E h \in Handles :
       /\ handles[h].st = "woken"
       /\ heap[handles[h].ptr].freed = 1
       /\ ref_calls[handles[h].ptr] > 0
       /\ wake_value_count = 1

\* What a wake or wake_by_ref on a Weak to target p must do in this step: wake
\* a live target once, do nothing to a target that is gone, never touch a
\* torn-down target, and not panic.
WeakWakeEffect(p) ==
  /\ panics' = panics
  /\ heap'[p].stale = heap[p].stale
  /\ heap'[p].dropped = heap[p].dropped
  /\ heap'[p].count = heap[p].count + (IF heap[p].strong > 0 THEN 1 ELSE 0)

\* C10: wake_by_ref and consuming wake on a Weak upgrade and wake: a target
\* that is alive gets its wake_by_ref run exactly once, and for a target
\* that is gone the call does nothing, does not panic and does not run
\* wake_by_ref on the torn-down target.
C10_WeakWakesOnlyLiveTarget ==
  [][(T \in WeakT) =>
       /\ \A h \in Handles :
            (WakerWakeByRef(h) \/ WakerWake(h)) => WeakWakeEffect(handles[h].ptr)
       /\ \A p \in Addr :
            (TraitWakeByRef(p) \/ TraitWake(p)) => WeakWakeEffect(p)
  ]_vars

C10_Witness ==
  /\ T \in WeakT
  /\ \E p \in Addr :
       /\ heap[p].dropped = 1
       /\ heap[p].count = 1
       /\ ref_calls[p] + Cardinality(Woken(p)) > 1
       /\ heap[p].stale = 0

\* Whether a Waker of an Option<T> holds the null pointer, that is None.
IsNone(h) == T \in OptionT /\ handles[h].ptr = Null

\* C11: a Waker made from None (the null pointer) does nothing on every
\* operation: wake_by_ref, wake, clone and drop change no wake counter, run
\* no teardown, release nothing and do not panic, and clone gives another
\* Waker holding the null pointer.
C11_NoneWakerDoesNothing ==
  [][\A h \in Handles :
       LET Idle == /\ heap' = heap
                   /\ wake_ref_count' = wake_ref_count
                   /\ wake_value_count' = wake_value_count
                   /\ drop_count' = drop_count
                   /\ panics' = panics
       IN IsNone(h) =>
            /\ (WakerWakeByRef(h) \/ WakerWake(h) \/ WakerDrop(h)) => Idle
            /\ WakerClone(h) =>
                 /\ Idle
                 /\ \E c \in Handles :
                      /\ handles[c].st = "unused"
                      /\ handles'[c].st = "live"
                      /\ handles'[c].ptr = Null
                      /\ handles'[c].vtable = handles[h].vtable
  ]_vars

C11_Witness ==
  /\ T = "OptionArc"
  /\ \E h \in Roots :
       /\ IsNone(h)
       /\ ~handles[h].some
       /\ handles[h].st = "woken"
       /\ ref_calls[Null] > 0
       /\ \E c \in Clones : handles[c].parent = h /\ handles[c].st = "dropped"
  /\ \E p \in Addr : heap[p].strong > 0

\* C17: the Option conversion keeps emptiness: into_raw(None) is null,
\* into_raw(Some(v)) is v's own pointer, from_raw(into_raw(o)) is o again
\* (None exactly when o was None, also for a v whose into_raw is null), a
\* second into_raw gives the same pointer, and a Waker made from Some(v)
\* wakes v and tears it down when it is woken by value.
C17_OptionRoundTripKeepsSome ==
  [][/\ \A some \in BOOLEAN : \A p \in Addr \cup {Null} :
          OptionRoundTrip(some, p) =>
            LET o == IF some THEN Some(T, p) ELSE None(T)
            IN /\ ~some => trip'.raw = Null
               /\ some => trip'.raw = into_raw(World, Unwrap(o)).ptr
               /\ trip'.raw2 = trip'.raw
               /\ trip'.val = o
     /\ \A h \in Roots :
          (T \in OptionT /\ handles[h].some /\ WakerWake(h)) =>
            IF Inner(T) \in ZeroSized
            THEN /\ wake_value_count' = wake_value_count + 1
                 /\ drop_count' = drop_count + 1
            ELSE heap'[handles[h].ptr].count = heap[handles[h].ptr].count + 1
  ]_vars

\* C12: a consuming wake that panics (Arc<PanicWaker>: the default wake runs
\* PanicWaker's wake_by_ref) reaches the caller as a panic, leaves the Waker
\* consumed, and releases the Waker's value exactly once: one strong pointer
\* less, and PanicWaker's Drop runs once exactly when that was the last one.
C12_FaultingWakeStillTearsDown ==
  [][\A h \in Handles :
       LET p == handles[h].ptr
       IN (T = "ArcPanic" /\ WakerWake(h)) =>
            /\ panics' = panics + 1
            /\ wake_ref_count' = wake_ref_count + 1
            /\ handles'[h].st = "woken"
            /\ \A g \in Handles \ {h} : handles'[g] = handles[g]
            /\ heap'[p].strong = heap[p].strong - 1
            /\ drop_count' = drop_count + (IF heap[p].strong = 1 THEN 1 ELSE 0)
            /\ heap'[p].dropped = heap[p].dropped + (IF heap[p].strong = 1 THEN 1 ELSE 0)
  ]_vars

C12_Witness ==
  /\ T = "ArcPanic"
  /\ panics = 1
  /\ drop_count = 1
  /\ \E h \in Handles :
       /\ handles[h].st = "woken"
       /\ heap[handles[h].ptr].strong = 0
       /\ heap[handles[h].ptr].dropped = 1
       /\ ref_calls[handles[h].ptr] = 0

\* What clone or wake_by_ref does on h when it is not stopped by a panic.
Completes(h) ==
  /\ WakerWakeByRef(h) => wake_ref_count' = wake_ref_count + 1
  /\ WakerClone(h) =>
       \E c \in Handles : handles[c].st = "unused" /\ handles'[c].st = "live"

\* C13 as stated: when into_raw of the reconstructed value returns another
\* pointer than the Waker holds, clone and wake_by_ref end in a panic in
\* every build.
C13_IdentityBreakAlwaysFaults ==
  [][\A h \in Handles :
       (T = "Unstable" /\ (WakerClone(h) \/ WakerWakeByRef(h))) =>
         panics' = panics + 1
  ]_vars

\* C13, amended: when into_raw of the reconstructed value returns another
\* pointer than the Waker holds, clone and wake_by_ref panic exactly in a
\* build with debug assertions; in a build without them the operation
\* completes silently, and in both the Waker still holds the old pointer.
C13_IdentityCheckedInDebugBuildsOnly ==
  [][\A h \in Handles :
       (T = "Unstable" /\ (WakerClone(h) \/ WakerWakeByRef(h))) =>
         /\ into_raw(World, from_raw(T, handles[h].ptr)).ptr # handles[h].ptr
         /\ handles'[h] = handles[h]
         /\ debug_assertions => panics' = panics + 1
         /\ ~debug_assertions => (panics' = panics /\ Completes(h))
  ]_vars

C13_Witness ==
  /\ T = "Unstable"
  /\ ~debug_assertions
  /\ panics = 0
  /\ wake_ref_count > 0
  /\ \E c \in Clones : handles[c].st = "live" /\ handles[handles[c].parent].st = "live"

\* C16: when T's Clone panics inside the clone operation, the panic reaches
\* the caller, no teardown runs and no Waker is made or changed; and the
\* teardown count stays the number of Wakers consumed, so a later wake or
\* drop of the Waker makes one teardown in total.
C16_FaultingCloneKeepsTheWaker ==
  [][\A h \in Handles :
       /\ (T = "PanicClone" /\ WakerClone(h)) =>
            /\ panics' = panics + 1
            /\ clone_count' = clone_count + 1
            /\ handles' = handles
            /\ drop_count' = drop_count
       /\ (T = "PanicClone" /\ (WakerWake(h) \/ WakerDrop(h))) =>
            drop_count' = Cardinality(Consumed')
  ]_vars

\* The same item with its one field written the other way.
OtherWay(item) ==
  [item EXCEPT !.fields = IF @ = "named" THEN "unnamed" ELSE "named"]

\* An emitted implementation without the spelling of the field.
Forwarding(out) ==
  [out.impl EXCEPT !.field_invocation.tokens = <<"self", "the field">>]

\* C15: the Wake and WakeRef derives expand exactly for a struct with one
\* field; a unit struct, a struct with no field or with more than one (and an
\* enum or union) get a compile-time error and no implementation.  The
\* emitted method has the name of the trait's method and forwards to that
\* method of the one field, and is the same for a named and a positional
\* field.  The IntoWaker derive rejects every type with generic parameters.
C15_DerivesAcceptOneField ==
  "ok" \in DOMAIN output =>
    /\ ~output.ok => DOMAIN output = {"ok", "error"}
    /\ input.macro \in {"Wake", "WakeRef"} =>
         /\ output.ok <=> (input.data = "struct" /\ input.fields # "unit"
                             /\ input.len = 1)
         /\ output.ok =>
              /\ output.impl.trait = input.macro
              /\ output.impl.method = method(input.macro)
              /\ output.impl.callee = <<input.macro, output.impl.method>>
              /\ output.impl.field_invocation.tokens[1] = "self"
              /\ output.impl.self_param.ref = (input.macro = "WakeRef")
              /\ output.impl.field_invocation.ref = (input.macro = "WakeRef")
              /\ derive(OtherWay(input)).ok
              /\ Forwarding(derive(OtherWay(input))) = Forwarding(output)
    /\ input.macro = "IntoWaker" => (output.ok <=> input.generics = 0)

C15_Witness ==
  /\ "ok" \in DOMAIN output
  /\ output.ok
  /\ input.macro = "WakeRef"
  /\ input.fields = "unnamed"
  /\ input.generics > 0

\* C19: as long as no call has panicked, the table the IntoWaker derive
\* generates and the table built on from_raw / into_raw make the same calls
\* of the value's wake, wake_by_ref, Clone and Drop in every operation, in the
\* same order, so that all four counts stay equal.
C19_DerivedTableMakesTheSameCalls ==
  [][(panics' = 0 /\ stowed'.panics = 0) =>
       /\ stowed'.wake_ref_count = wake_ref_count'
       /\ stowed'.wake_value_count = wake_value_count'
       /\ stowed'.clone_count = clone_count'
       /\ stowed'.drop_count = drop_count'
       /\ \A h \in Handles :
            LET p == handles[h].ptr
                v == handles[h].vtable
            IN /\ DualClone(h) =>
                    vt_clone(World, v, p).w.log = dv_clone(Stowed, T, p).w.log
               /\ DualWakeByRef(h) =>
                    vt_wake_by_ref(World, v, p).log = dv_wake_by_ref(Stowed, T, p).log
               /\ DualWake(h) =>
                    vt_wake(World, v, p).log = dv_wake(Stowed, T, p).log
               /\ DualDrop(h) =>
                    vt_drop(World, v, p).log = dv_drop(Stowed, T, p).log
  ]_vars

C19_Witness ==
  /\ T = "StaticWaker"
  /\ panics = 0
  /\ stowed.wake_ref_count = 2
  /\ stowed.wake_value_count = 1
  /\ stowed.clone_count = 1
  /\ stowed.drop_count = 2
  /\ drop_count = 2
  /\ Live = {}

\* Contexts that have entered a wake of target p and not yet called it.
AboutToWake(p, pcs) ==
  {c \in Ctx : ctx[c].op \in Waking /\ ctx[c].waker.ptr = p /\ ctx[c].pc \in pcs}
ArcTargets == {p \in Addr : heap[p].kind = "arc"}

\* C14: with Wakers of an Arc cloned, woken by reference, woken by value and
\* dropped by concurrent contexts, under every interleaving the target is
\* not torn down while a Waker or an Arc of the program is live, it is torn
\* down at most once and exactly once when all of them are released and every
\* call has returned, and the target's wake_by_ref has run once for every
\* wake call made that has reached its call.
C14_ArcWakersShareAcrossContexts ==
  (T = "Arc") =>
    \A p \in ArcTargets :
      /\ (LiveOn(p) # {} \/ owned[p].strong > 0) => heap[p].dropped = 0
      /\ heap[p].dropped <= 1
      /\ (LiveOn(p) = {} /\ owned[p].strong = 0 /\ InFlightOn(p) = {})
           => heap[p].dropped = 1
      /\ heap[p].count + Cardinality(AboutToWake(p, {"call"}))
           = ref_calls[p] + Cardinality(Woken(p))
      /\ heap[p].stale = 0

C14_Witness ==
  /\ T = "Arc"
  /\ heap[1].dropped = 1
  /\ heap[1].count = 2
  /\ clone_count = 1
  /\ Woken(1) # {}
  /\ InFlightOn(1) = {}

\* C18: while a context is inside wake_by_ref on a Waker, no owning value
\* for the Waker's pointer exists beside the Waker.
C18_WakeByRefHoldsNoOwningValue ==
  \A c \in Ctx :
    (ctx[c].op = "wake_by_ref" /\ handles[ctx[c].h].st = "live")
      => ctx[c].waker.ptr # handles[ctx[c].h].ptr

\* C20: a wake through a Waker of a Weak holds a strong pointer only for the
\* time of the call, so the strong count is the program's own pointers plus
\* the temporary ones of the wakes in flight; with the program's last Arc
\* dropped by another context at the same time, the target's wake_by_ref
\* runs at most once per wake call and only on a target not torn down, and
\* the teardown runs at most once, and exactly once when all is released.
C20_WeakWakeHoldsATemporaryArc ==
  (T = "ArcWeak") =>
    \A p \in ArcTargets :
      /\ heap[p].strong
           = owned[p].strong
             + Cardinality({c \in Ctx : ctx[c].up /\ ctx[c].waker.ptr = p})
             + Cardinality({c \in Ctx : ctx[c].op = "ext_drop"
                                        /\ ctx[c].pc = "release"
                                        /\ ctx[c].waker.ptr = p})
      /\ \A c \in Ctx : ctx[c].up => ctx[c].pc \in {"call", "release"}
      /\ AboutToWake(p, {"call"}) # {} => heap[p].dropped = 0
      /\ heap[p].stale = 0
      /\ heap[p].count + Cardinality(AboutToWake(p, {"upgrade", "call"}))
           <= ref_calls[p] + Cardinality(Woken(p))
      /\ heap[p].dropped <= 1
      /\ (owned[p].strong = 0 /\ InFlightOn(p) = {}) => heap[p].dropped = 1

C20_Witness ==
  /\ T = "ArcWeak"
  /\ owned[1].strong = 0
  /\ heap[1].count = 1
  /\ heap[1].dropped = 0
  /\ \E c \in Ctx : ctx[c].op \in Waking /\ ctx[c].pc = "drop_slow"

\* C21: behind the table the IntoWaker derive generates, a wake_by_ref or a
\* clone of a Waker, panicking or not, runs no teardown and touches no
\* allocation and leaves the Waker live, a clone that panics makes no Waker,
\* and the teardowns run are one for every Waker consumed by wake or drop.
C21_DerivedTableBorrowsInPlace ==
  [][/\ \A h \in Handles :
          (DualWakeByRef(h) \/ DualClone(h)) =>
            /\ stowed'.drop_count = stowed.drop_count
            /\ handles'[h].st = "live"
            /\ dv_wake_by_ref(Stowed, T, handles[h].ptr).heap = heap
            /\ dv_clone(Stowed, T, handles[h].ptr).w.heap = heap
            /\ (DualClone(h) /\ stowed'.panics > stowed.panics) =>
                 Used' = Used
     /\ stowed'.drop_count
          = Cardinality({h \in Handles : handles'[h].st \in {"woken", "dropped"}})
  ]_vars

C21_Witness ==
  /\ T = "PanicWaker"
  /\ stowed.panics = 1
  /\ stowed.wake_ref_count = 1
  /\ handles[1].st = "dropped"
  /\ stowed.drop_count = 1
  /\ Live = {}

====
